---- MODULE Spec2Model ----
(***************************************************************************)
(* Dataset lifecycle and metadata-table management: Database (the facade), *)
(* Dataset, DatasetMetaTable and the ErrorHandler composite that binds     *)
(* them.  The backing store is two tables: the metadata table (a bag of    *)
(* rows name/dataset_id/size) and the data tables (rows tagged by owner).  *)
(***************************************************************************)
EXTENDS Integers, Sequences, FiniteSets, Bags, TLC

\* ------------------------------------------------------------------ bounds
MaxUuid == 2        \* uuids are 1..MaxUuid
MaxObjects == 3     \* Dataset and DatasetMetaTable objects constructed in one run
MaxErrs == 1        \* queued error records before an operation starts
MaxEHNodes == 3     \* nodes of the free-standing ErrorHandler composite
MaxEHErrs == 3      \* records queued in that composite
MaxRows == 2        \* rows of the metadata table before a direct add_table

VARIABLES
  debug,            \* __debug__: assert statements are executed (no -O)
  default_uuid,     \* the uuid4() bound as default argument of Dataset.__init__
  connection,       \* Database.connection: "None" or "conn"
  meta_table,       \* Database.meta_table: node of the current DatasetMetaTable or None
  data_provider,    \* Database.data_provider: node or None
  active_datasets,  \* Database.active_datasets: sequence of Dataset nodes
  ds,               \* the Dataset objects: node -> [name, size, uuid, meta]
  nds,              \* Dataset objects constructed so far
  nmeta,            \* DatasetMetaTable objects constructed so far
  table_exists,     \* DatasetMetaTable._table_exists (class attribute)
  db_meta_exists,   \* backing store: the metadata table exists
  meta_rows,        \* backing store: the rows of the metadata table, a bag
  data_rows,        \* backing store: data rows as <<table name, owner uuid>>
  handlers,         \* ErrorHandler._error_handlers of every node
  errors,           \* ErrorHandler._errors of every node
  op, arg, result,  \* the last call, its arguments (for a load, with the outcome of each
                    \* lease it asked for) and what it returned or raised
  trace             \* what the last call did on the connection, in order: "acquire" and
                    \* "release" of a lease, and the statements it issued

vars == <<debug, default_uuid, connection, meta_table, data_provider, active_datasets,
          ds, nds, nmeta, table_exists, db_meta_exists, meta_rows, data_rows,
          handlers, errors, op, arg, result, trace>>

store == <<table_exists, db_meta_exists, meta_rows, data_rows>>
facade == <<connection, meta_table, data_provider, active_datasets, nds, nmeta>>
heap == <<ds, handlers, errors>>

\* ------------------------------------------------------------- ErrorHandler
None == <<"None", 0>>
Facade == <<"F", 0>>
MetaNodes == {"M"} \X (1..MaxObjects)
ProviderNodes == {"P"} \X (1..MaxObjects)
DatasetNodes == {"D"} \X (1..MaxObjects)
Nodes == {Facade} \cup MetaNodes \cup ProviderNodes \cup DatasetNodes
EHNodes == {"N"} \X (1..MaxEHNodes)

ErrorMessage == {"DATASET_NOT_DELETED", "ALL_DATASETS_LOAD_ERROR",
                 "DATABASE_CONNECTION_ERROR", "META_TABLE_NOT_EXISTING",
                 "DATASET_NOT_EXISTING", "DATASET_LOAD_ERROR", "DATABASE_QUERY_ERROR"}
EHErrors == {"DATASET_LOAD_ERROR", "DATASET_NOT_EXISTING"}

\* ErrorHandler.__init__
NoHandlers(S) == [n \in S |-> <<>>]

\* ErrorHandler.throw_error: self._errors.append(ErrorRecord(error, msg))
throw_error(errs, n, e) == [errs EXCEPT ![n] = Append(@, e)]

\* ErrorHandler.add_error_handler: self._error_handlers.append(handler)
add_error_handler(hs, n, h) == [hs EXCEPT ![n] = Append(@, h)]

\* get_errors, line 38: self._errors = list()
KeepLocal(errs, n) == errs
ResetLocal(errs, n) == [errs EXCEPT ![n] = <<>>]

\* get_errors, line 40: errors.extend(handler.get_errors())
ExtendFront(acc, more) == more \o acc
Extend(acc, more) == acc \o more

\* ErrorHandler.get_errors on node n: [out |-> the list returned, errs |-> the queues afterwards]
RECURSIVE get_errors(_, _, _)
get_errors(n, hs, errs) ==
  LET local == errs[n]
      D[i \in 0..Len(hs[n])] ==
        IF i = 0 THEN [out |-> local, errs |-> ResetLocal(errs, n)]
        ELSE LET r == get_errors(hs[n][i], hs, D[i-1].errs)
             IN [out |-> Extend(D[i-1].out, r.out), errs |-> r.errs]
  IN D[Len(hs[n])]

\* the nodes reachable from n through attached handlers, n included
RECURSIVE Reach(_, _, _)
Reach(hs, frontier, seen) ==
  IF frontier \subseteq seen THEN seen
  ELSE LET new == frontier \ seen
       IN Reach(hs, UNION {{hs[m][i] : i \in 1..Len(hs[m])} : m \in new}, seen \cup new)
Subtree(hs, n) == Reach(hs, {n}, {})

HasParent(hs, h) == \E m \in DOMAIN hs : \E i \in 1..Len(hs[m]) : hs[m][i] = h

TotalErrs(errs) ==
  LET RECURSIVE Sum(_)
      Sum(S) == IF S = {} THEN 0
                ELSE LET m == CHOOSE x \in S : TRUE IN Len(errs[m]) + Sum(S \ {m})
  IN Sum(DOMAIN errs)

Ret(status, value) == [status |-> status, value |-> value]

\* --------------------------------------- the free-standing composite (SpecEH)
InitEH ==
  /\ debug = TRUE /\ default_uuid = 1
  /\ connection = "None" /\ meta_table = None /\ data_provider = None
  /\ active_datasets = <<>> /\ ds = <<>> /\ nds = 0 /\ nmeta = 0
  /\ table_exists = FALSE /\ db_meta_exists = FALSE
  /\ meta_rows = EmptyBag /\ data_rows = {}
  /\ handlers = NoHandlers(EHNodes) /\ errors = NoHandlers(EHNodes)
  /\ op = "init" /\ arg = <<>> /\ result = Ret("None", <<>>) /\ trace = <<>>

ThrowError(n, e) ==
  /\ TotalErrs(errors) < MaxEHErrs
  /\ errors' = throw_error(errors, n, e)
  /\ op' = "throw_error" /\ arg' = <<>> /\ result' = Ret("None", <<>>) /\ trace' = <<>>
  /\ UNCHANGED <<debug, default_uuid, facade, store, ds, handlers>>

AddErrorHandler(n, h) ==
  /\ n[2] < h[2]                        \* the composite stays a tree: nodes are numbered
  /\ ~HasParent(handlers, h)            \* parents first, and a handler is attached once
  /\ handlers' = add_error_handler(handlers, n, h)
  /\ op' = "add_error_handler" /\ arg' = <<>> /\ result' = Ret("None", <<>>)
  /\ trace' = <<>>
  /\ UNCHANGED <<debug, default_uuid, facade, store, ds, errors>>

GetErrors(n) ==
  LET r == get_errors(n, handlers, errors)
  IN /\ errors' = r.errs
     /\ op' = "get_errors" /\ arg' = <<n>> /\ result' = Ret("list", r.out) /\ trace' = <<>>
     /\ UNCHANGED <<debug, default_uuid, facade, store, ds, handlers>>

NextEH ==
  \/ \E n \in EHNodes, e \in EHErrors : ThrowError(n, e)
  \/ \E n \in EHNodes, h \in EHNodes : AddErrorHandler(n, h)
  \/ \E n \in EHNodes : GetErrors(n)

SpecEH == InitEH /\ [][NextEH]_vars

\* ------------------------------------------------------------ backing store
UUIDs == 1..MaxUuid
INVALID_NAME == "invalid"
INVALID_SIZE == -1
\* connection.data_table, the name of the shared data table; no dataset is named so here
DATA_TABLE == "data_table"
REQUIRED_CONNECTION_KEYS == {"host", "user", "password", "database", "port",
                             "data_table", "meta_table"}

\* the DataRecord values handed to add_dataset: a name and the bytes of its frame
DataRecords == {[name |-> "a", bytes |-> 1], [name |-> "b", bytes |-> 2]}
\* data.data.memory_usage(index=True).sum()
memory_usage(data) == data.bytes

NoDataset == [name |-> "", size |-> 0, uuid |-> 0, meta |-> None]

\* the mutable state the calls below thread through
Cur == [te |-> table_exists, db |-> db_meta_exists, rows |-> meta_rows, data |-> data_rows,
        errs |-> errors, hs |-> handlers, ds |-> ds, tr |-> <<>>]
\* a Dataset object that is neither registered nor attached to the facade is referenced
\* by nothing once the call that made it has returned: it is dropped, but for the object
\* `keep` the call in progress has just made
Collect(st, active, keep) ==
  LET live == {active[i] : i \in 1..Len(active)}
                \cup {st.hs[Facade][i] : i \in 1..Len(st.hs[Facade])} \cup {keep}
  IN CHOOSE s \in
       {[st EXCEPT !.ds = [d \in DOMAIN @ |-> IF d \in dead THEN NoDataset ELSE @[d]],
                   !.errs = [n \in DOMAIN @ |-> IF n \in dead THEN <<>> ELSE @[n]],
                   !.hs = [n \in DOMAIN @ |-> IF n \in dead THEN <<>> ELSE @[n]]]
          : dead \in {DatasetNodes \ live}} : TRUE
\* the state a call leaves behind; st is evaluated once
Commit(st) ==
  \E s \in {st} :
    /\ table_exists' = s.te /\ db_meta_exists' = s.db /\ meta_rows' = s.rows
    /\ data_rows' = s.data /\ errors' = s.errs /\ handlers' = s.hs /\ ds' = s.ds
    /\ trace' = s.tr
Out(st, ret) == [st |-> st, ret |-> ret]
\* a record thrown for the first time, noted in the record of the call
Throw(st, n, e) == [st EXCEPT !.errs = throw_error(@, n, e), !.tr = Append(@, "throw_error")]
\* something done on the connection, appended to the record of the call
Issue(st, what) == [st EXCEPT !.tr = Append(@, what)]

\* DatabaseComponent.get_connection: the lease, or None with the failure recorded
get_connection(st, n, ok) ==
  IF ok THEN Out(Issue(st, "acquire"), TRUE)
  ELSE Out(Throw(st, n, "DATABASE_CONNECTION_ERROR"), FALSE)

\* DatabaseConnection.post_connection: the lease is given back
post_connection(st) == Issue(st, "release")

\* DatabaseComponent.query_sql against a table: None, with the failure recorded, when the
\* statement fails
query_sql(st, n, stmt, succeeds) ==
  IF succeeds THEN Out(Issue(st, stmt), TRUE)
  ELSE Out(Throw(Issue(st, stmt), n, "DATABASE_QUERY_ERROR"), FALSE)

\* --------------------------------------------------------- DatasetMetaTable
\* DatasetMetaTable._exists
meta_exists(st, m, ok) ==
  LET c == get_connection(st, m, ok)
      q == query_sql(c.st, m, "GET_ALL_TABLES", TRUE)
  IN IF ~c.ret THEN Out(c.st, FALSE) ELSE Out(q.st, q.st.db)

\* DatasetMetaTable._create_table
create_table(st, m, ok) ==
  LET c == get_connection(st, m, ok)
      q == query_sql(c.st, m, "CREATE_TABLE", ~c.st.db)   \* fails on an existing table
  IN IF ~c.ret THEN Out(c.st, FALSE)
     ELSE Out(post_connection([q.st EXCEPT !.db = TRUE]), TRUE)

\* DatasetMetaTable.__init__
MetaTableInit(st, m, ok1, ok2) ==
  IF st.te THEN st
  ELSE LET e == meta_exists(st, m, ok1)
           c == create_table(e.st, m, ok2)
       IN IF e.ret THEN e.st ELSE [c.st EXCEPT !.te = c.ret]

\* DatasetMetaTable._assert_table_exists_get_connection
assert_table_exists_get_connection(st, m, ok) ==
  IF ~st.te THEN Out(Throw(st, m, "META_TABLE_NOT_EXISTING"), FALSE)
  ELSE get_connection(st, m, ok)

\* a row of the metadata table, by META_TABLE_COLUMNS
Row(name, uuid, size) == [name |-> name, dataset_id |-> uuid, size |-> size]

\* DatasetMetaTable.add_table: ret is "False" or "None" (the insert path returns nothing)
add_table(st, m, name, uuid, size, ok) ==
  LET c == assert_table_exists_get_connection(st, m, ok)
  IN IF ~c.ret THEN Out(c.st, "False")
     ELSE Out(post_connection([Issue(c.st, "INSERT_META") EXCEPT
                                 !.rows = @ (+) SetToBag({Row(name, uuid, size)}),
                                 !.db = TRUE]),
              "None")

\* SELECT name, dataset_id, size FROM meta_table WHERE dataset_id = uuid
RowsOf(rows, uuid) ==
  [r \in {x \in BagToSet(rows) : x.dataset_id = uuid} |-> rows[r]]

\* get_meta_data without the check of line 141
single_row_assumed(found) == FALSE

\* DatasetMetaTable.get_meta_data, line 141: dataset_meta_data.shape[0] > 1
multiple_rows(found) == BagCardinality(found) > 1

\* DatasetMetaTable.get_meta_data: ret.status is "None", "row" or "raise"
get_meta_data(st, m, uuid, ok) ==
  LET c == get_connection(st, m, ok)
      q == query_sql(c.st, m, "SELECT_META", c.st.db)
      found == IF q.ret THEN RowsOf(q.st.rows, uuid) ELSE EmptyBag
  IN IF ~c.ret THEN Out(c.st, Ret("None", <<>>))
     ELSE IF ~q.ret \/ BagCardinality(found) = 0
       THEN Out(Throw(q.st, m, "DATASET_NOT_EXISTING"), Ret("None", <<>>))
     ELSE IF multiple_rows(found)
       THEN Out(q.st, Ret("raise", <<"DATABASE_MULTIPLE_DATASETS_WITH_SAME_UUID">>))
     ELSE Out(post_connection(q.st), Ret("row", <<CHOOSE r \in BagToSet(found) : TRUE>>))

\* DatasetMetaTable.get_meta_data_as_record: the row as a DatasetRecord(name, size)
get_meta_data_as_record(st, m, uuid, ok) ==
  LET r == get_meta_data(st, m, uuid, ok)
  IN IF r.ret.status = "row"
       THEN Out(r.st, Ret("record", <<r.ret.value[1].name, r.ret.value[1].size>>))
       ELSE r

\* DatasetMetaTable.remove_dataset: the DELETE takes every row of the uuid
remove_dataset(st, m, uuid, ok) ==
  LET c == assert_table_exists_get_connection(st, m, ok)
      q == query_sql(c.st, m, "DELETE_META", c.st.db)
      left == [r \in {x \in BagToSet(q.st.rows) : x.dataset_id # uuid} |-> q.st.rows[r]]
  IN IF ~c.ret THEN Out(Throw(c.st, m, "DATASET_NOT_DELETED"), FALSE)
     ELSE Out(post_connection(IF q.ret THEN [q.st EXCEPT !.rows = left] ELSE q.st), TRUE)

\* DatasetMetaTable.get_all_datasets: the dataset_id column, here as a bag of uuids
get_all_datasets(st, m, ok) ==
  LET c == assert_table_exists_get_connection(st, m, ok)
      q == query_sql(c.st, m, "SELECT_UUIDS", c.st.db)
      ids == {r.dataset_id : r \in BagToSet(q.st.rows)}
      col == [u \in ids |-> BagCardinality(RowsOf(q.st.rows, u))]
  IN IF ~c.ret THEN Out(Throw(c.st, m, "ALL_DATASETS_LOAD_ERROR"), Ret("list", <<EmptyBag>>))
     ELSE IF ~q.ret
       THEN Out(Throw(q.st, m, "ALL_DATASETS_LOAD_ERROR"), Ret("list", <<EmptyBag>>))
     ELSE Out(q.st, Ret("list", <<col>>))

\* ------------------------------------------------------------------ Dataset
\* Dataset.__init__ on the fresh object d
DatasetInit(st, d, name, size, uuid, m, ok) ==
  LET s1 == [st EXCEPT !.ds[d] = [name |-> name, size |-> size, uuid |-> uuid, meta |-> m],
                       !.hs[d] = Append(@, m)]
  IN add_table(s1, m, name, uuid, size, ok).st

\* Dataset.add_data: rows go to the table named after the dataset, tagged with its uuid
add_data(st, d, ok) ==
  LET c == get_connection(st, d, ok)
  IN IF ~c.ret THEN Out(c.st, FALSE)
     ELSE Out(post_connection([Issue(c.st, "INSERT_DATA") EXCEPT
                                 !.data = @ \cup {<<c.st.ds[d].name, c.st.ds[d].uuid>>}]),
              TRUE)

\* delete_dataset going on to the metadata row whatever the first phase gave
second_phase_always(query_successful) == TRUE

\* Dataset.delete_dataset, lines 80-82: the metadata row is removed after a successful
\* deletion of the data rows only
second_phase(query_successful) == query_successful

\* Dataset.delete_dataset: DELETE FROM data_table WHERE uuid column = uuid, then the
\* metadata row; q_ok: the DELETE statement succeeds
delete_dataset(st, d, ok1, q_ok, ok2) ==
  LET c == get_connection(st, d, ok1)
      q == query_sql(c.st, d, "DELETE_DATA", q_ok)
      uuid == st.ds[d].uuid
      s1 == post_connection(IF q.ret
                              THEN [q.st EXCEPT !.data = {r \in @ : ~(r[1] = DATA_TABLE
                                                                       /\ r[2] = uuid)}]
                              ELSE q.st)
  IN IF ~c.ret THEN Out(c.st, FALSE)
     ELSE IF ~second_phase(q.ret) THEN Out(s1, FALSE)
     ELSE remove_dataset(s1, st.ds[d].meta, uuid, ok2)

\* Dataset.load_from_database into the fresh object d: ret is "dataset" or "raise"
load_from_database(st, d, m, uuid, ok1, ok2) ==
  LET s1 == DatasetInit(st, d, INVALID_NAME, INVALID_SIZE, uuid, m, ok1)
      r == get_meta_data(s1, s1.ds[d].meta, uuid, ok2)
      row == r.ret.value[1]
  IN IF r.ret.status = "raise" THEN r
     ELSE IF r.ret.status = "None"
       THEN Out(Throw(r.st, d, "DATASET_LOAD_ERROR"), Ret("dataset", <<d>>))
     ELSE Out([r.st EXCEPT !.ds[d] = [@ EXCEPT !.name = row.name, !.size = row.size,
                                                  !.uuid = row.dataset_id]],
              Ret("dataset", <<d>>))

\* ErrorHandler.error_occured: a record is queued on the node or below it
error_occured(st, n) == \E m \in Subtree(st.hs, n) : st.errs[m] # <<>>

\* ErrorHandler.remove_error_handler: self._error_handlers.remove(handler)
remove_error_handler(hs, n, h) ==
  LET i == CHOOSE i \in 1..Len(hs[n]) : hs[n][i] = h /\ \A j \in 1..(i-1) : hs[n][j] # h
  IN [hs EXCEPT ![n] = SubSeq(@, 1, i-1) \o SubSeq(@, i+1, Len(@))]

\* for error in errs: self.throw_error(error.error_type, error.args)
RECURSIVE Rethrow(_, _, _)
Rethrow(st, n, errs) ==
  IF errs = <<>> THEN st
  ELSE Rethrow([st EXCEPT !.errs = throw_error(@, n, Head(errs))], n, Tail(errs))

\* ----------------------------------------------------------------- Database
Init ==
  /\ debug \in BOOLEAN /\ default_uuid = 1     \* uuids are interchangeable
  /\ connection = "None" /\ meta_table = None /\ data_provider = None
  /\ active_datasets = <<>> /\ ds = [d \in DatasetNodes |-> NoDataset]
  /\ nds = 0 /\ nmeta = 0
  /\ table_exists = FALSE /\ db_meta_exists \in BOOLEAN
  /\ meta_rows = EmptyBag /\ data_rows = {}
  /\ handlers = NoHandlers(Nodes) /\ errors = NoHandlers(Nodes)
  /\ op = "init" /\ arg = <<>> /\ result = Ret("None", <<>>) /\ trace = <<>>

Raise(what) ==
  /\ result' = Ret("raise", <<what>>) /\ trace' = <<>>
  /\ UNCHANGED <<debug, default_uuid, facade, store, heap>>

\* the records the facade's get_errors would reach; a call starts below MaxErrs of them
QueuedErrs == TotalErrs([n \in Subtree(handlers, Facade) |-> errors[n]])
Room == QueuedErrs < MaxErrs

\* Database._assert_database_configured
database_configured(conn) == conn # "None"

\* Database.set_connection, line 75: assert self.connection is not None
set_connection_assert(dbg, conn) == dbg => conn # "None"

\* Database.set_connection
SetConnection(keys, conn_ok) ==
  /\ op' = "set_connection" /\ arg' = <<keys, conn_ok>>
  /\ IF ~set_connection_assert(debug, connection) THEN Raise("AssertionError")
     ELSE IF ~(REQUIRED_CONNECTION_KEYS \subseteq keys) THEN Raise("KeyError")
     ELSE IF ~conn_ok
       THEN /\ Room
            /\ errors' = throw_error(errors, Facade, "DATABASE_CONNECTION_ERROR")
            /\ result' = Ret("False", <<>>) /\ trace' = <<"throw_error">>
            /\ UNCHANGED <<debug, default_uuid, facade, store, ds, handlers>>
     ELSE /\ nds + nmeta < MaxObjects /\ Room
          /\ \E ok1, ok2 \in BOOLEAN, m \in {<<"M", nmeta + 1>>}, p \in {<<"P", nmeta + 1>>} :
               \E s1 \in {MetaTableInit(Cur, m, ok1, ok2)} :
                 \E s2 \in {[s1 EXCEPT !.hs = add_error_handler(
                                                add_error_handler(@, Facade, m), Facade, p)]} :
                   /\ connection' = "conn" /\ meta_table' = m /\ data_provider' = p
                   /\ nmeta' = nmeta + 1
                   /\ Commit(Collect(s2, active_datasets, None))
                   /\ result' = Ret("True", <<>>)
                   /\ UNCHANGED <<debug, default_uuid, active_datasets, nds>>

\* load_dataset putting the loaded dataset into the registry
registry_after_load_appended(active, d) == Append(active, d)

\* Database.load_dataset, lines 53-55: the loaded dataset is attached to the facade and no
\* statement touches self.active_datasets
registry_after_load(active, d) == active

\* Database.load_dataset; `dataset.errors` is read as the dataset's own queue, left in place
LoadDataset(uuid) ==
  /\ op' = "load_dataset"
  /\ IF ~database_configured(connection)
       THEN arg' = <<uuid>> /\ Raise("DATABASE_ACCESS_BEFORE_CONNECTION")
     ELSE /\ nds + nmeta < MaxObjects /\ Room
          /\ \E ok1, ok2 \in BOOLEAN, d \in {<<"D", nds + 1>>} :
               \E r \in {load_from_database(Cur, d, meta_table, uuid, ok1, ok2)} :
                 LET invalid == r.st.ds[d].name = INVALID_NAME
                     s2 == IF invalid THEN Rethrow(r.st, Facade, r.st.errs[d])
                           ELSE [r.st EXCEPT !.hs = add_error_handler(@, Facade, d)]
                 IN /\ arg' = <<uuid, ok1, ok2>>
                    /\ nds' = nds + 1
                    /\ IF r.ret.status = "raise"
                         THEN /\ Commit(Collect(r.st, active_datasets, None))
                              /\ result' = r.ret /\ active_datasets' = active_datasets
                         ELSE /\ Commit(Collect(s2, active_datasets, d))
                              /\ result' = Ret(IF invalid THEN "False" ELSE "None", <<>>)
                              /\ active_datasets' = IF invalid THEN active_datasets
                                                    ELSE registry_after_load(active_datasets, d)
                    /\ UNCHANGED <<debug, default_uuid, connection, meta_table,
                                   data_provider, nmeta>>

\* add_dataset without the check of line 122
add_dataset_fault_unchecked(conn, append, active) ==
  IF ~database_configured(conn) THEN "DATABASE_ACCESS_BEFORE_CONNECTION" ELSE "none"

\* Database.add_dataset, lines 120-123: the faults raised before anything is touched
add_dataset_fault(conn, append, active) ==
  IF ~database_configured(conn) THEN "DATABASE_ACCESS_BEFORE_CONNECTION"
  ELSE IF append /\ Len(active) = 0 THEN "DATABASE_APPEND_TO_EMPTY"
  ELSE "none"

\* add_dataset reading the dataset's records and leaving them queued
peeked(st, g) == st

\* Database.add_dataset, line 133: errors = dataset.get_errors() empties the queues of the
\* dataset and of the handlers below it
drained(st, g) == [st EXCEPT !.errs = g.errs]

\* add_dataset registering whatever dataset it wrote to
registers_written(failed, append) == ~failed

\* Database.add_dataset, lines 132-142: the dataset is put into the registry and the
\* error tree when nothing failed and it is new
registers(failed, append) == ~failed /\ ~append

\* Database.add_dataset
AddDataset(data, append) ==
  /\ op' = "add_dataset" /\ arg' = <<data, append>>
  /\ IF add_dataset_fault(connection, append, active_datasets) # "none"
       THEN Raise(add_dataset_fault(connection, append, active_datasets))
     ELSE IF append /\ active_datasets = <<>> THEN Raise("IndexError")
     ELSE /\ Room /\ (~append => nds + nmeta < MaxObjects)
          /\ \E ok1 \in (IF append THEN {TRUE} ELSE BOOLEAN), ok2 \in BOOLEAN,
                d \in {IF append THEN active_datasets[1] ELSE <<"D", nds + 1>>} :
               \E s1 \in {IF append THEN Cur
                          ELSE DatasetInit(Cur, d, data.name, memory_usage(data),
                                           default_uuid, meta_table, ok1)} :
                 \E a \in {add_data(s1, d, ok2)} :
                   \E g \in {get_errors(d, a.st.hs, a.st.errs)} :
                     LET failed == error_occured(a.st, d) \/ ~a.ret
                         s2 == IF failed
                                 THEN Rethrow(drained(a.st, g), Facade, g.out)
                               ELSE IF registers(failed, append)
                                 THEN [a.st EXCEPT !.hs = add_error_handler(@, Facade, d)]
                               ELSE a.st
                     IN /\ nds' = IF append THEN nds ELSE nds + 1
                        /\ active_datasets' = IF registers(failed, append)
                                                THEN Append(active_datasets, d)
                                              ELSE active_datasets
                        /\ Commit(Collect(s2, active_datasets', d))
                        /\ result' = IF failed THEN Ret("None", <<>>)
                                     ELSE Ret("uuid", <<s2.ds[d].uuid>>)
                        /\ UNCHANGED <<debug, default_uuid, connection, meta_table,
                                       data_provider, nmeta>>

\* unload_dataset dropping every dataset whose uuid is that of the i-th
unloaded_every(active, dsm, i) ==
  SelectSeq(active, LAMBDA d : dsm[d].uuid # dsm[active[i]].uuid)

\* Database.unload_dataset, line 158: self.active_datasets.remove(dataset), dataset
\* being the i-th of the registry
unloaded(active, dsm, i) == SubSeq(active, 1, i-1) \o SubSeq(active, i+1, Len(active))

\* Database.unload_dataset
UnloadDataset(uuid) ==
  /\ op' = "unload_dataset" /\ arg' = <<uuid>>
  /\ IF ~database_configured(connection) THEN Raise("DATABASE_ACCESS_BEFORE_CONNECTION")
     ELSE IF \A i \in 1..Len(active_datasets) : ds[active_datasets[i]].uuid # uuid
       THEN Raise("DATASET_NOT_EXISTING")
     ELSE LET i == CHOOSE i \in 1..Len(active_datasets) :
                     /\ ds[active_datasets[i]].uuid = uuid
                     /\ \A j \in 1..(i-1) : ds[active_datasets[j]].uuid # uuid
              d == active_datasets[i]
          IN /\ active_datasets' = unloaded(active_datasets, ds, i)
             /\ handlers' = remove_error_handler(handlers, Facade, d)
             /\ result' = Ret("True", <<>>) /\ trace' = <<>>
             /\ UNCHANGED <<debug, default_uuid, connection, meta_table, data_provider,
                            nds, nmeta, store, ds, errors>>

\* Database.get_data_set_meta
GetDataSetMeta(uuid) ==
  /\ op' = "get_data_set_meta" /\ arg' = <<uuid>>
  /\ IF meta_table = None THEN Raise("AttributeError")
     ELSE /\ Room
          /\ \E ok \in BOOLEAN :
               \E r \in {get_meta_data_as_record(Cur, meta_table, uuid, ok)} :
                 /\ Commit(Collect(r.st, active_datasets, None)) /\ result' = r.ret
                 /\ UNCHANGED <<debug, default_uuid, facade>>

\* Database.delete_dataset: the body is `pass`
DeleteDataset(uuid) ==
  /\ op' = "delete_dataset" /\ arg' = <<uuid>>
  /\ result' = Ret("None", <<>>) /\ trace' = <<>>
  /\ UNCHANGED <<debug, default_uuid, facade, store, heap>>

\* the caller drains the facade: Database.get_errors
FacadeGetErrors ==
  LET r == get_errors(Facade, handlers, errors)
  IN /\ op' = "get_errors" /\ arg' = <<Facade>> /\ result' = Ret("list", r.out)
     /\ trace' = <<>>
     /\ errors' = r.errs
     /\ UNCHANGED <<debug, default_uuid, facade, store, ds, handlers>>

\* the connection maps handed to set_connection, by their keys
ConnectionMaps == {REQUIRED_CONNECTION_KEYS, REQUIRED_CONNECTION_KEYS \ {"port"}}

Next ==
  \/ \E keys \in ConnectionMaps :
       \E conn_ok \in (IF set_connection_assert(debug, connection)
                          /\ REQUIRED_CONNECTION_KEYS \subseteq keys
                       THEN BOOLEAN ELSE {TRUE}) : SetConnection(keys, conn_ok)
  \/ \E uuid \in UUIDs : LoadDataset(uuid)
  \/ \E data \in DataRecords, append \in BOOLEAN : AddDataset(data, append)
  \/ \E uuid \in UUIDs : UnloadDataset(uuid)
  \/ \E uuid \in UUIDs : GetDataSetMeta(uuid)
  \/ \E uuid \in UUIDs : DeleteDataset(uuid)
  \/ FacadeGetErrors

Spec == Init /\ [][Next]_vars

\* ------------------------------------- the components called directly (SpecDS)
\* A caller that holds a DatabaseConnection constructs DatasetMetaTable and Dataset
\* objects and calls their methods; it keeps every object it has made.
InitDS ==
  /\ debug = TRUE /\ default_uuid = 1
  /\ connection = "conn" /\ meta_table = None /\ data_provider = None
  /\ active_datasets = <<>> /\ ds = [d \in DatasetNodes |-> NoDataset]
  /\ nds = 0 /\ nmeta = 0
  /\ table_exists = FALSE /\ db_meta_exists \in BOOLEAN
  /\ meta_rows = EmptyBag /\ data_rows = {}
  /\ handlers = NoHandlers(Nodes) /\ errors = NoHandlers(Nodes)
  /\ op = "init" /\ arg = <<>> /\ result = Ret("None", <<>>) /\ trace = <<>>

LiveMeta == {"M"} \X (1..nmeta)
LiveDatasets == {"D"} \X (1..nds)
RoomDS == TotalErrs(errors) < MaxErrs
Held == <<debug, default_uuid, connection, meta_table, data_provider, active_datasets>>

\* DatasetMetaTable(connection)
NewMetaTable(ok1, ok2) ==
  /\ nds + nmeta < MaxObjects /\ RoomDS
  /\ \E m \in {<<"M", nmeta + 1>>} :
       /\ op' = "DatasetMetaTable" /\ arg' = <<m, ok1, ok2>>
       /\ Commit(MetaTableInit(Cur, m, ok1, ok2))
       /\ nmeta' = nmeta + 1 /\ result' = Ret("object", <<m>>)
       /\ UNCHANGED <<Held, nds>>

\* Dataset(name, size, connection, meta_table), the uuid left to its default
NewDataset(data, m, ok) ==
  /\ nds + nmeta < MaxObjects /\ RoomDS
  /\ \E d \in {<<"D", nds + 1>>} :
       /\ op' = "Dataset" /\ arg' = <<d, data, ok>>
       /\ Commit(DatasetInit(Cur, d, data.name, memory_usage(data), default_uuid, m, ok))
       /\ nds' = nds + 1 /\ result' = Ret("object", <<d>>)
       /\ UNCHANGED <<Held, nmeta>>

\* dataset.add_data(data)
AddData(d, ok) ==
  /\ RoomDS
  /\ \E r \in {add_data(Cur, d, ok)} :
       /\ op' = "add_data" /\ arg' = <<d, ok>>
       /\ Commit(r.st) /\ result' = Ret(IF r.ret THEN "True" ELSE "False", <<>>)
       /\ UNCHANGED <<Held, nds, nmeta>>

\* dataset.delete_dataset()
DatasetDelete(d, ok1, q_ok, ok2) ==
  /\ RoomDS
  /\ \E r \in {delete_dataset(Cur, d, ok1, q_ok, ok2)} :
       /\ op' = "delete_dataset" /\ arg' = <<d, ok1, q_ok, ok2>>
       /\ Commit(r.st) /\ result' = Ret(IF r.ret THEN "True" ELSE "False", <<>>)
       /\ UNCHANGED <<Held, nds, nmeta>>

\* meta_table.get_meta_data(uuid)
GetMetaData(m, uuid, ok) ==
  /\ RoomDS
  /\ \E r \in {get_meta_data(Cur, m, uuid, ok)} :
       /\ op' = "get_meta_data" /\ arg' = <<m, uuid, ok>>
       /\ Commit(r.st) /\ result' = r.ret
       /\ UNCHANGED <<Held, nds, nmeta>>

\* meta_table.add_table(name, uuid, size)
AddTable(m, data, uuid, ok) ==
  /\ RoomDS /\ BagCardinality(meta_rows) < MaxRows
  /\ \E r \in {add_table(Cur, m, data.name, uuid, memory_usage(data), ok)} :
       /\ op' = "add_table" /\ arg' = <<m, data, uuid, ok>>
       /\ Commit(r.st) /\ result' = Ret(r.ret, <<>>)
       /\ UNCHANGED <<Held, nds, nmeta>>

\* meta_table.get_all_datasets()
GetAllDatasets(m, ok) ==
  /\ RoomDS
  /\ \E r \in {get_all_datasets(Cur, m, ok)} :
       /\ op' = "get_all_datasets" /\ arg' = <<m, ok>>
       /\ Commit(r.st) /\ result' = r.ret
       /\ UNCHANGED <<Held, nds, nmeta>>

\* get_errors() on every object the caller holds, the records thrown away
RECURSIVE DrainEach(_, _, _)
DrainEach(S, hs, errs) ==
  IF S = {} THEN errs
  ELSE LET n == CHOOSE x \in S : TRUE
       IN DrainEach(S \ {n}, hs, get_errors(n, hs, errs).errs)

Drain ==
  /\ op' = "get_errors" /\ arg' = <<>> /\ result' = Ret("None", <<>>)
  /\ errors' = DrainEach(LiveMeta \cup LiveDatasets, handlers, errors) /\ trace' = <<>>
  /\ UNCHANGED <<Held, nds, nmeta, store, ds, handlers>>

NextDS ==
  \/ \E ok1, ok2 \in BOOLEAN : NewMetaTable(ok1, ok2)
  \/ \E data \in DataRecords, m \in LiveMeta, ok \in BOOLEAN : NewDataset(data, m, ok)
  \/ \E d \in LiveDatasets, ok \in BOOLEAN : AddData(d, ok)
  \/ \E d \in LiveDatasets, ok1 \in BOOLEAN :
       \E q_ok \in (IF ok1 THEN BOOLEAN ELSE {FALSE}) :      \* a flag is an input only
         \E ok2 \in (IF q_ok THEN BOOLEAN ELSE {FALSE}) :    \* where the call consumes it
           DatasetDelete(d, ok1, q_ok, ok2)
  \/ \E m \in LiveMeta, uuid \in UUIDs, ok \in BOOLEAN : GetMetaData(m, uuid, ok)
  \/ \E m \in LiveMeta, ok \in BOOLEAN : GetAllDatasets(m, ok)
  \/ Drain

SpecDS == InitDS /\ [][NextDS]_vars

\* ------------------------------------- the metadata table called directly (SpecMT)
\* A caller that holds DatasetMetaTable objects only and calls their methods.
NextMT ==
  \/ \E ok1, ok2 \in BOOLEAN : NewMetaTable(ok1, ok2)
  \/ \E m \in LiveMeta, data \in DataRecords, uuid \in UUIDs :
       \E ok \in (IF table_exists THEN BOOLEAN ELSE {TRUE}) :   \* the lease is asked for
         AddTable(m, data, uuid, ok)                            \* only past the flag
  \/ \E m \in LiveMeta, uuid \in UUIDs, ok \in BOOLEAN : GetMetaData(m, uuid, ok)
  \/ \E m \in LiveMeta, ok \in BOOLEAN : GetAllDatasets(m, ok)
  \/ Drain

SpecMT == InitDS /\ [][NextMT]_vars

\* ------------------------------------------------------------------- claims

\* the visiting order of get_errors from n: n, then each handler's order, in attachment order
RECURSIVE Preorder(_, _)
Preorder(hs, n) ==
  LET P[i \in 0..Len(hs[n])] ==
        IF i = 0 THEN <<n>> ELSE P[i-1] \o Preorder(hs, hs[n][i])
  IN P[Len(hs[n])]

\* the queues along a visiting order, each node's queue at its first visit only
RECURSIVE QueuesAlong(_, _, _)
QueuesAlong(order, errs, seen) ==
  IF order = <<>> THEN <<>>
  ELSE (IF Head(order) \in seen THEN <<>> ELSE errs[Head(order)])
       \o QueuesAlong(Tail(order), errs, seen \cup {Head(order)})

\* C8: right after get_errors on a node, with no throw_error in between, get_errors on
\* the same node returns the empty list
C8_SecondDrainEmpty ==
  op = "get_errors" => get_errors(arg[1], handlers, errors).out = <<>>

C8_Witness ==
  /\ op = "get_errors" /\ Len(result.value) >= 2 /\ Len(handlers[arg[1]]) >= 1
  /\ \E h \in Subtree(handlers, arg[1]) : h # arg[1] /\ Len(handlers[h]) >= 1

\* C9: get_errors returns the node's own records in order of occurrence, then the records
\* drained from each attached handler in attachment order, and leaves the queue of the
\* node and of every node below it empty
C9_DrainOrderAndClear ==
  [][op' = "get_errors" =>
       /\ result'.value = QueuesAlong(Preorder(handlers, arg'[1]), errors, {})
       /\ \A m \in Subtree(handlers, arg'[1]) : errors'[m] = <<>>
       /\ \A m \in DOMAIN errors \ Subtree(handlers, arg'[1]) : errors'[m] = errors[m]]_vars

C9_Witness ==
  /\ op = "get_errors" /\ Len(handlers[arg[1]]) = 2
  /\ handlers[arg[1]][1] # handlers[arg[1]][2]
  /\ Len(result.value) = 3 /\ result.value[1] # result.value[2]

\* C1: no two rows of the metadata table have the same uuid
C1_MetaUuidsUnique ==
  \A uuid \in UUIDs : BagCardinality(RowsOf(meta_rows, uuid)) <= 1

\* C2: when add_dataset(data, append=False) returned a uuid, get_data_set_meta of that uuid
\* returns, without raising, a record with data's name and the size computed for data
C2_AddThenGetMeta ==
  (op = "add_dataset" /\ ~arg[2] /\ result.status = "uuid") =>
     get_meta_data_as_record(Cur, meta_table, result.value[1], TRUE).ret
       = Ret("record", <<arg[1].name, memory_usage(arg[1])>>)

FreshFacade ==
  /\ connection = "None" /\ meta_table = None /\ data_provider = None
  /\ active_datasets = <<>> /\ handlers[Facade] = <<>> /\ errors[Facade] = <<>>

\* C3: set_connection on a fresh facade, with every required key and a connection that can
\* be constructed, returns True and leaves the facade configured, the metadata table and
\* the data provider attached as its handlers
C3_SetConnectionConfigures ==
  [][(op' = "set_connection" /\ FreshFacade
        /\ REQUIRED_CONNECTION_KEYS \subseteq arg'[1] /\ arg'[2]) =>
       /\ result' = Ret("True", <<>>)
       /\ connection' # "None" /\ meta_table' \in MetaNodes /\ data_provider' \in ProviderNodes
       /\ handlers'[Facade] = <<meta_table', data_provider'>>]_vars

GuardedOps == {"load_dataset", "add_dataset", "unload_dataset", "get_data_set_meta",
               "delete_dataset"}

\* C4: on a facade without a connection every operation but set_connection raises the
\* not-configured fault and changes nothing
C4_NotConfiguredFault ==
  [][(op' \in GuardedOps /\ connection = "None") =>
       /\ result' = Ret("raise", <<"DATABASE_ACCESS_BEFORE_CONNECTION">>)
       /\ UNCHANGED <<facade, store, heap>>]_vars

\* C5: load_dataset of a uuid with exactly one metadata row returns True and attaches to
\* the facade a dataset with that row's name, size and uuid
C5_LoadExistingDataset ==
  [][(op' = "load_dataset" /\ database_configured(connection) /\ arg'[2] /\ arg'[3]
        /\ BagCardinality(RowsOf(meta_rows, arg'[1])) = 1
        /\ \A r \in BagToSet(RowsOf(meta_rows, arg'[1])) : r.name # INVALID_NAME) =>
       /\ result' = Ret("True", <<>>)
       /\ LET d == <<"D", nds'>>
              row == CHOOSE r \in BagToSet(RowsOf(meta_rows, arg'[1])) : TRUE
          IN /\ ds'[d] = [name |-> row.name, size |-> row.size, uuid |-> row.dataset_id,
                          meta |-> meta_table]
             /\ ds'[d].name # INVALID_NAME
             /\ handlers'[Facade] = Append(handlers[Facade], d)]_vars

\* C6: Dataset.load_from_database (here as load_dataset calls it, leaving the candidate
\* as it was returned) of a uuid without a metadata row returns, without raising, a
\* dataset with the sentinel name from which exactly one record, a DATASET_LOAD_ERROR,
\* can be drained
C6_LoadMissingDataset ==
  [][(op' = "load_dataset" /\ database_configured(connection) /\ arg'[2] /\ arg'[3]
        /\ table_exists /\ errors[meta_table] = <<>>
        /\ BagCardinality(RowsOf(meta_rows, arg'[1])) = 0) =>
       LET d == <<"D", nds'>>
       IN /\ result'.status # "raise"
          /\ ds'[d].name = INVALID_NAME
          /\ get_errors(d, handlers', errors').out = <<"DATASET_LOAD_ERROR">>]_vars

\* C7: delete_dataset of an active dataset returns a success indicator, and when it
\* returns True neither the data table nor the metadata table holds a row of that uuid
C7_DeleteRemovesRows ==
  [][(op' = "delete_dataset" /\ database_configured(connection)
        /\ \E i \in 1..Len(active_datasets) : ds[active_datasets[i]].uuid = arg'[1]) =>
       \/ result' = Ret("False", <<>>)
       \/ /\ result' = Ret("True", <<>>)
          /\ BagCardinality(RowsOf(meta_rows', arg'[1])) = 0
          /\ \A r \in data_rows' : r[2] # arg'[1]]_vars

\* C10: add_dataset(data, append=True) on a configured facade with an empty registry raises
\* the append-to-empty fault and writes no metadata row, no data row and no error record
C10_AppendToEmptyFault ==
  [][(op' = "add_dataset" /\ arg'[2] /\ database_configured(connection)
        /\ active_datasets = <<>>) =>
       /\ result' = Ret("raise", <<"DATABASE_APPEND_TO_EMPTY">>)
       /\ UNCHANGED <<facade, store, heap>>]_vars

C10_Witness ==
  /\ op = "add_dataset" /\ arg[2] /\ database_configured(connection)
  /\ active_datasets = <<>> /\ BagCardinality(meta_rows) > 0
  /\ result = Ret("raise", <<"DATABASE_APPEND_TO_EMPTY">>)

\* C11: on a configured facade unload_dataset of a uuid no active dataset has raises the
\* not-found fault and changes nothing, and an unload_dataset right after a successful
\* unload_dataset of the same uuid raises that fault
C11_UnloadNotFoundFault ==
  [][(op' = "unload_dataset" /\ database_configured(connection)) =>
       /\ (\A i \in 1..Len(active_datasets) : ds[active_datasets[i]].uuid # arg'[1]) =>
            /\ result' = Ret("raise", <<"DATASET_NOT_EXISTING">>)
            /\ UNCHANGED <<facade, store, heap>>
       /\ (op = "unload_dataset" /\ result = Ret("True", <<>>) /\ arg = arg') =>
            result' = Ret("raise", <<"DATASET_NOT_EXISTING">>)]_vars

\* C12: get_meta_data(uuid), its lease acquired, against a metadata table with two or more
\* rows of that uuid raises the multiple-datasets fault: it returns no row, queues no
\* error record and leaves the table as it is
C12_DuplicateRowsFault ==
  [][(op' = "get_meta_data" /\ arg'[3]
        /\ BagCardinality(RowsOf(meta_rows, arg'[2])) >= 2) =>
       /\ result' = Ret("raise", <<"DATABASE_MULTIPLE_DATASETS_WITH_SAME_UUID">>)
       /\ errors' = errors /\ meta_rows' = meta_rows]_vars

C12_Witness ==
  /\ op = "get_meta_data" /\ arg[3]
  /\ BagCardinality(RowsOf(meta_rows, arg[2])) >= 2
  /\ result = Ret("raise", <<"DATABASE_MULTIPLE_DATASETS_WITH_SAME_UUID">>)

\* C13: set_connection with a map that lacks a required key raises the configuration
\* fault (KeyError) with no connection made, no lease asked for and the facade unchanged
C13_MissingKeyFault ==
  [][(op' = "set_connection" /\ ~(REQUIRED_CONNECTION_KEYS \subseteq arg'[1])) =>
       /\ result' = Ret("raise", <<"KeyError">>)
       /\ trace' = <<>>
       /\ UNCHANGED <<facade, store, heap>>]_vars

\* C14: a successful add_data writes its rows to the shared data table, tagged with the
\* dataset's uuid, and after a successful delete_dataset no data row tagged with the
\* dataset's uuid is left in the store
C14_AddDataOwnerTagged ==
  [][/\ (op' = "add_data" /\ result' = Ret("True", <<>>)) =>
          data_rows' = data_rows \cup {<<DATA_TABLE, ds[arg'[1]].uuid>>}
     /\ (op' = "delete_dataset" /\ result' = Ret("True", <<>>)) =>
          \A r \in data_rows' : r[2] # ds[arg'[1]].uuid]_vars

\* the leases a call has acquired and not given back
Outstanding(tr) ==
  Cardinality({i \in 1..Len(tr) : tr[i] = "acquire"})
    - Cardinality({i \in 1..Len(tr) : tr[i] = "release"})

\* C15: every call on a Dataset or a DatasetMetaTable has given back, when it returns or
\* raises, every lease it acquired
C15_LeasesReleased == Outstanding(trace) = 0

\* C16: after DatasetMetaTable(connection) with working leases the metadata table exists
\* in the store and is confirmed to exist, so that an add_table that follows, its lease
\* acquired, is not rejected
C16_TableConfirmedAfterInit ==
  (op = "DatasetMetaTable" /\ arg[2] /\ arg[3]) =>
     /\ db_meta_exists /\ table_exists
     /\ add_table(Cur, arg[1], "a", default_uuid, 1, TRUE).ret # "False"

\* C17: no DatasetMetaTable(connection) issues CREATE TABLE while the metadata table
\* exists in the store
C17_NoCreateOnExistingTable ==
  [][(op' = "DatasetMetaTable" /\ \E i \in 1..Len(trace') : trace'[i] = "CREATE_TABLE") =>
       ~db_meta_exists]_vars

\* seq continued by at least one more record
ProperPrefix(seq, longer) ==
  Len(seq) < Len(longer) /\ SubSeq(longer, 1, Len(seq)) = seq

\* C18: add_dataset that returns a uuid with append=False has appended exactly the new
\* dataset to the registry and attached it to the facade; with append=True it has written
\* to the first active dataset, returned that dataset's uuid and left the registry and the
\* error tree alone; add_dataset that returns None has left the registry and the error
\* tree alone and has put at least one record, after those already there, on the facade's
\* own queue, which the facade's next get_errors returns
C18_AddDatasetFrame ==
  [][(op' = "add_dataset" /\ result'.status # "raise") =>
       LET new == <<"D", nds + 1>>
           first == active_datasets[1]
       IN IF result'.status = "uuid" /\ ~arg'[2]
            THEN /\ active_datasets' = Append(active_datasets, new)
                 /\ handlers'[Facade] = Append(handlers[Facade], new)
                 /\ result'.value = <<ds'[new].uuid>>
                 /\ ds'[new].name = arg'[1].name
          ELSE IF result'.status = "uuid"
            THEN /\ active_datasets' = active_datasets /\ ds'[first] = ds[first]
                 /\ handlers'[Facade] = handlers[Facade] /\ handlers'[first] = handlers[first]
                 /\ result'.value = <<ds[first].uuid>>
                 /\ data_rows' = data_rows \cup {<<ds[first].name, ds[first].uuid>>}
                 /\ meta_rows' = meta_rows
          ELSE /\ result' = Ret("None", <<>>)
               /\ active_datasets' = active_datasets
               /\ handlers'[Facade] = handlers[Facade]
               /\ ProperPrefix(errors[Facade], errors'[Facade])]_vars

C18_Witness ==
  /\ op = "add_dataset" /\ arg[2] /\ result = Ret("None", <<>>)
  /\ Len(active_datasets) = 2 /\ errors[Facade] # <<>>


\* the positions of a statement in the record of a call
Positions(tr, what) == {i \in 1..Len(tr) : tr[i] = what}

\* C19: a Dataset.delete_dataset whose lease is refused or whose DELETE of the data rows
\* fails returns False without attempting the removal of the metadata row: no second
\* lease is asked for, no DELETE is issued on the metadata table, the metadata rows and
\* the metadata table's error queue are unchanged; and whenever the DELETE on the
\* metadata table is issued, the DELETE of the data rows was issued before it, succeeded,
\* and its lease was released
C19_DeleteTwoPhases ==
  [][op' = "delete_dataset" =>
       LET m == ds[arg'[1]].meta
           uuid == ds[arg'[1]].uuid
       IN /\ (~arg'[2] \/ ~arg'[3]) =>
               /\ result' = Ret("False", <<>>)
               /\ meta_rows' = meta_rows
               /\ errors'[m] = errors[m]
               /\ Positions(trace', "DELETE_META") = {}
               /\ Cardinality(Positions(trace', "acquire")) = (IF arg'[2] THEN 1 ELSE 0)
          /\ \A i \in Positions(trace', "DELETE_META") :
               /\ arg'[2] /\ arg'[3]
               /\ \E j \in Positions(trace', "DELETE_DATA"), k \in Positions(trace', "release") :
                    j < k /\ k < i
               /\ \A r \in data_rows' : ~(r[1] = DATA_TABLE /\ r[2] = uuid)]_vars

C19_Witness ==
  /\ op = "delete_dataset" /\ arg[2] /\ ~arg[3] /\ result = Ret("False", <<>>)
  /\ table_exists /\ RowsOf(meta_rows, ds[arg[1]].uuid) # EmptyBag
  /\ trace = <<"acquire", "DELETE_DATA", "throw_error", "release">>


\* C20: an unload_dataset that returns True has taken exactly one dataset of the given
\* uuid out of the registry, the others keeping their order; has taken that dataset out
\* of the facade's handlers, so that it is no longer below the facade and a record thrown
\* on it afterwards does not come out of the facade's get_errors; and has left the
\* metadata table, the data table, the datasets and the queued records as they were
C20_UnloadFrame ==
  [][(op' = "unload_dataset" /\ result' = Ret("True", <<>>)) =>
       \E i \in 1..Len(active_datasets) :
         LET d == active_datasets[i]
             later == [errors' EXCEPT ![d] = Append(@, "DATABASE_QUERY_ERROR")]
         IN /\ ds[d].uuid = arg'[1]
            /\ active_datasets' = SubSeq(active_datasets, 1, i-1)
                                  \o SubSeq(active_datasets, i+1, Len(active_datasets))
            /\ Len(handlers'[Facade]) = Len(handlers[Facade]) - 1
            /\ handlers' = [handlers EXCEPT ![Facade] = SelectSeq(@, LAMBDA h : h # d)]
            /\ d \notin Subtree(handlers', Facade)
            /\ get_errors(Facade, handlers', later).out
                 = get_errors(Facade, handlers', errors').out
            /\ UNCHANGED <<store, ds, errors>>]_vars

C20_Witness ==
  /\ op = "unload_dataset" /\ result = Ret("True", <<>>)
  /\ active_datasets # <<>> /\ ds[active_datasets[1]].uuid = arg[1]


\* C21: what add_table returns matches what it did: it returns True when it has inserted
\* exactly the row (name, uuid, size); when the table is not confirmed to exist it inserts
\* nothing, records one META_TABLE_NOT_EXISTING on the metadata table and returns False
C21_AddTableIndicator ==
  [][op' = "add_table" =>
       LET m == arg'[1]
           row == Row(arg'[2].name, arg'[3], memory_usage(arg'[2]))
       IN /\ meta_rows' = meta_rows (+) SetToBag({row}) => result' = Ret("True", <<>>)
          /\ ~table_exists =>
               /\ meta_rows' = meta_rows
               /\ errors'[m] = Append(errors[m], "META_TABLE_NOT_EXISTING")
               /\ result' = Ret("False", <<>>)]_vars


C23_AttachedAreRegistered ==
  \A i \in 1..Len(handlers[Facade]) :
    handlers[Facade][i] \in DatasetNodes =>
      \E j \in 1..Len(active_datasets) : active_datasets[j] = handlers[Facade][i]


\* C24: loading reads the metadata table only: load_dataset on the facade and
\* Dataset.load_from_database leave the rows of the metadata table as they were, whether a
\* row of the uuid exists or not
C24_LoadReadOnly ==
  [][(op' = "load_dataset" /\ database_configured(connection)) => meta_rows' = meta_rows]_vars


\* C25: an add_dataset(data, append=False) that returns None leaves the rows of the
\* metadata table as they were
C25_FailedAddLeavesNoRow ==
  [][(op' = "add_dataset" /\ ~arg'[2] /\ result' = Ret("None", <<>>)) =>
       meta_rows' = meta_rows]_vars


\* the records queued on the facade and below it, each node counted once
RECURSIVE QueuedOn(_, _)
QueuedOn(S, errs) ==
  IF S = {} THEN <<>>
  ELSE LET n == CHOOSE x \in S : TRUE IN errs[n] \o QueuedOn(S \ {n}, errs)
Queued(hs, errs) ==
  IF \A n \in DOMAIN errs : errs[n] = <<>> THEN <<>>
  ELSE QueuedOn({n \in Subtree(hs, Facade) : errs[n] # <<>>}, errs)

\* how often e occurs in seq
Count(seq, e) == Cardinality({i \in 1..Len(seq) : seq[i] = e})
SameRecords(s, t) ==
  Len(s) = Len(t) /\ \A i \in 1..Len(s) : Count(s, s[i]) = Count(t, s[i])

\* C26: in the handler graph the facade builds, no record is lost and none is returned
\* twice: the facade's get_errors returns exactly the records queued on the facade and
\* below it, each once, and leaves none queued; every other call leaves queued what was
\* queued and adds exactly the records thrown during the call
C26_EachErrorOnce ==
  [][IF op' # "get_errors" /\ errors' = errors /\ handlers' = handlers
       THEN Count(trace', "throw_error") = 0       \* nothing queued has moved
     ELSE \E before \in {Queued(handlers, errors)}, after \in {Queued(handlers', errors')} :
            IF op' = "get_errors"
              THEN SameRecords(result'.value, before) /\ after = <<>>
            ELSE /\ Len(after) = Len(before) + Count(trace', "throw_error")
                 /\ \A i \in 1..Len(before) :
                      Count(after, before[i]) >= Count(before, before[i])]_vars

C26_Witness ==
  /\ op = "get_errors" /\ Len(result.value) >= 1
  /\ \E i \in 1..Len(active_datasets) :
       LET d == active_datasets[i]
       IN /\ d \in {handlers[Facade][j] : j \in 1..Len(handlers[Facade])}
          /\ ds[d].meta \in {handlers[Facade][j] : j \in 1..Len(handlers[Facade])}
          /\ ds[d].meta \in {handlers[d][j] : j \in 1..Len(handlers[d])}


\* C27: the uuids of the datasets in the registry are pairwise distinct, so that after an
\* unload_dataset(u) that returned True no dataset of the registry has uuid u
C27_RegistryUuidsDistinct ==
  /\ \A i, j \in 1..Len(active_datasets) :
       ds[active_datasets[i]].uuid = ds[active_datasets[j]].uuid => i = j
  /\ (op = "unload_dataset" /\ result = Ret("True", <<>>)) =>
       \A i \in 1..Len(active_datasets) : ds[active_datasets[i]].uuid # arg[1]

====
